---- MODULE Spec2Model ----
(***************************************************************************)
(* State-machine model of the media transfer and playback subsystem:       *)
(*   src/services/apiService.ts     the XHR transfer engine                *)
(*   src/components/MediaPreview.tsx the preview / playback controller     *)
(*   src/App.tsx                    the orchestrator that mounts it        *)
(* Times are whole seconds, playback rates are hundredths (1.0 = 100),     *)
(* percentages are exact rationals <<numerator, denominator>>.             *)
(***************************************************************************)
EXTENDS Integers, Sequences, FiniteSets, TLC

\* ------------------------------------------------------------------ bounds
MaxJobs == 2
MaxSessionJobs == 1
MaxCalls == 1
MaxFetches == 2
MaxTotal == 2
MaxDuration == 2
MaxSeconds == 700

\* ------------------------------------------------------- program constants
RangeDefaultMax == 100
DefaultRate == 100
DefaultVolume == 1

RateButtons == {50, 100, 150, 200}

\* ----------------------------------------------------------------- values
NoItem == "null"
NoUrl == "null"
NoAlert == "none"
NoPct == <<>>
NoError == "null"
TunnelHeaders == {<<"ngrok-skip-browser-warning", "true">>, <<"Bypass-Tunnel-Reminder", "true">>}
Zero == <<0, 1>>
Hundred == <<100, 1>>

Items == {"vid", "aud", "doc", "img"}
ExternalUrls == {"http://stream"}
UploadTexts == {"", "notes"}

\* FileItem.filetype as <<family, subtype>>; <<>> is the empty content type.
ItemType ==
  [i \in Items |->
     CASE i = "vid" -> <<"video", "mp4">>
       [] i = "aud" -> <<"audio", "mpeg">>
       [] i = "img" -> <<"image", "png">>
       [] OTHER -> <<>>]

\* FileItem.text ("" when the item has no description).
ItemText ==
  [i \in Items |->
     CASE i = "vid" -> "clip"
       [] i = "doc" -> ""
       [] OTHER -> ""]

getCategoryFromMime(filetype) ==
  IF filetype = <<>> THEN "DOCUMENT"
  ELSE CASE filetype[1] = "image" -> "IMAGE"
         [] filetype[1] = "video" -> "VIDEO"
         [] filetype[1] = "audio" -> "AUDIO"
         [] OTHER -> "DOCUMENT"

getDownloadUrl(id) == <<"download", id>>

\* ------------------------------------------------------------------ state
VARIABLES
  selectedItem,        \* App: the selected FileItem or null
  playingExternalUrl,  \* App: the external URL being played or null
  externalLink,        \* App: text of the stream-URL input
  isUploading,         \* App: upload flag
  uploadText,          \* App: text of the description input
  items,               \* App: the listed items as displayed
  loading,             \* App: list loading flag
  error,               \* App: list error message or null
  listCalls,           \* the getList calls made so far, in issue order
  alertShown,          \* window.alert dialog on screen (blocks the event loop)
  pv,                  \* MediaPreview useState fields of the mounted instance
  media,               \* the <video>/<audio> element behind videoRef/audioRef
  jobs                 \* the XHR transfers that exist, in start order

appVars == <<selectedItem, playingExternalUrl, externalLink, isUploading>>
dashVars == <<uploadText, items, loading, error, listCalls>>
vars == <<selectedItem, playingExternalUrl, externalLink, isUploading,
          uploadText, items, loading, error, listCalls,
          alertShown, pv, media, jobs>>

\* ------------------------------------------------------- MediaPreview view
\* A source URL is a tuple: <<"external", text>> for the text of an external
\* URL taken as it is, <<"download", id>> for the API's download URL.
sourceUrl(item, externalUrl) ==
  IF externalUrl # NoUrl THEN <<"external", externalUrl>>
  ELSE IF item # NoItem THEN getDownloadUrl(item) ELSE <<>>

\* A view that classifies the selected item before it looks at the URL.
category_itemFirst(item, externalUrl) ==
  IF item # NoItem THEN getCategoryFromMime(ItemType[item])
  ELSE IF externalUrl # NoUrl THEN "VIDEO" ELSE "DOCUMENT"

category(item, externalUrl) ==
  IF externalUrl # NoUrl THEN "VIDEO"
  ELSE IF item # NoItem THEN getCategoryFromMime(ItemType[item]) ELSE "DOCUMENT"

Mounted(item, externalUrl) == item # NoItem \/ externalUrl # NoUrl

\* What the component renders for its inputs: the four category branches,
\* the playback controls and the two download buttons.
Renders(item, externalUrl) ==
  LET c == category(item, externalUrl)
  IN  [img |-> c = "IMAGE", video |-> c = "VIDEO", audio |-> c = "AUDIO",
       documentDownload |-> c = "DOCUMENT",
       controls |-> c \in {"VIDEO", "AUDIO"},
       sidebarDownload |-> item # NoItem /\ c # "DOCUMENT"]

\* A view that also hands the image to the video ref.
ElementKind_imageBound(item, externalUrl) ==
  IF ~Mounted(item, externalUrl) THEN "none"
  ELSE CASE category(item, externalUrl) \in {"VIDEO", "IMAGE"} -> "video"
         [] category(item, externalUrl) = "AUDIO" -> "audio"
         [] OTHER -> "none"

\* Which ref is filled: the element the category renders.
ElementKind(item, externalUrl) ==
  IF ~Mounted(item, externalUrl) THEN "none"
  ELSE CASE category(item, externalUrl) = "VIDEO" -> "video"
         [] category(item, externalUrl) = "AUDIO" -> "audio"
         [] OTHER -> "none"

PreviewDefaults ==
  [isPlaying |-> FALSE, volume |-> DefaultVolume, isMuted |-> FALSE,
   playbackRate |-> DefaultRate, isDownloading |-> FALSE,
   downloadProgress |-> Zero, currentTime |-> 0, duration |-> 0]

\* A media element as the browser creates it; duration 0 stands for NaN.
FreshMedia(kind) ==
  [kind |-> kind, paused |-> TRUE, currentTime |-> 0, duration |-> 0,
   playbackRate |-> DefaultRate, muted |-> FALSE, ready |-> FALSE,
   error |-> FALSE]

NoMedia == FreshMedia("none")

\* The browser's media element load algorithm, run when src changes on the
\* same element: paused, position 0, duration unknown, rate back to the
\* default rate; muted is kept.
ReloadMedia(m) ==
  [m EXCEPT !.paused = TRUE, !.currentTime = 0, !.duration = 0,
            !.playbackRate = DefaultRate, !.ready = FALSE, !.error = FALSE]

\* An effect that forgets setPlaybackRate(1.0).
SourceEffect_keepsRate(p) ==
  [p EXCEPT !.isPlaying = FALSE, !.currentTime = 0, !.duration = 0,
            !.isDownloading = FALSE, !.downloadProgress = Zero]

\* useEffect(..., [sourceUrl])
SourceEffect(p) ==
  [p EXCEPT !.isPlaying = FALSE, !.playbackRate = DefaultRate,
            !.currentTime = 0, !.duration = 0,
            !.isDownloading = FALSE, !.downloadProgress = Zero]

\* An unmount that aborts the transfers its instance started.
Detach_cancelling(js) == <<>>

\* The callbacks of a transfer started by an instance that has unmounted no
\* longer reach a mounted instance.
Detach(js) == [k \in 1..Len(js) |-> [js[k] EXCEPT !.attached = FALSE]]

\* Re-render of App after selectedItem / playingExternalUrl became item /
\* url: mount, unmount or update of MediaPreview and its effect.
Render(item, url) ==
  LET was == Mounted(selectedItem, playingExternalUrl)
      now == Mounted(item, url)
      oldKind == ElementKind(selectedItem, playingExternalUrl)
      newKind == ElementKind(item, url)
      changed == sourceUrl(item, url) # sourceUrl(selectedItem, playingExternalUrl)
  IN  /\ selectedItem' = item
      /\ playingExternalUrl' = url
      /\ IF ~now
         THEN /\ pv' = PreviewDefaults
              /\ media' = NoMedia
              /\ jobs' = IF was THEN Detach(jobs) ELSE jobs
         ELSE IF ~was
         THEN /\ pv' = SourceEffect(PreviewDefaults)
              /\ media' = FreshMedia(newKind)
              /\ jobs' = jobs
         ELSE /\ pv' = IF changed THEN SourceEffect(pv) ELSE pv
              /\ media' = IF newKind # oldKind THEN FreshMedia(newKind)
                          ELSE IF changed /\ newKind # "none" THEN ReloadMedia(media)
                          ELSE media
              /\ jobs' = jobs

\* -------------------------------------------------------------- App actions
\* FileCard onSelect={setSelectedItem}
SelectItem(i) ==
  /\ alertShown = NoAlert
  /\ UNCHANGED dashVars
  /\ Render(i, playingExternalUrl)
  /\ UNCHANGED <<externalLink, isUploading, alertShown>>

\* onChange of the stream-URL input
SetExternalLink(u) ==
  /\ alertShown = NoAlert
  /\ UNCHANGED dashVars
  /\ externalLink' = u
  /\ UNCHANGED <<selectedItem, playingExternalUrl, isUploading, alertShown,
                 pv, media, jobs>>

handlePlayExternal ==
  /\ alertShown = NoAlert
  /\ UNCHANGED dashVars
  /\ externalLink # ""
  /\ Render(selectedItem, externalLink)
  /\ UNCHANGED <<externalLink, isUploading, alertShown>>

\* MediaPreview onClose
Close ==
  /\ alertShown = NoAlert
  /\ UNCHANGED dashVars
  /\ Mounted(selectedItem, playingExternalUrl)
  /\ Render(NoItem, NoUrl)
  /\ UNCHANGED <<externalLink, isUploading, alertShown>>

\* ------------------------------------------------- playback controller
HasMedia == media.kind # "none"

Min(a, b) == IF a < b THEN a ELSE b

\* HTMLMediaElement.play(): refused while the element is in an error state;
\* otherwise un-pauses, restarting from 0 when playback had ended.
ElementPlay(m) ==
  IF m.error THEN m
  ELSE [m EXCEPT !.paused = FALSE,
                 !.currentTime = IF m.ready /\ m.currentTime = m.duration
                                 THEN 0 ELSE m.currentTime]

\* Assignment to HTMLMediaElement.currentTime: before metadata it is kept as
\* the default start position, afterwards the element seeks within its range.
ElementSeek(m, time) ==
  [m EXCEPT !.currentTime = IF m.ready THEN Min(time, m.duration) ELSE time]

\* The body of handleTogglePlay on the state p and the element m.
TogglePlay(p, m) ==
  IF m.paused
  THEN [media |-> ElementPlay(m), pv |-> [p EXCEPT !.isPlaying = TRUE]]
  ELSE [media |-> [m EXCEPT !.paused = TRUE], pv |-> [p EXCEPT !.isPlaying = FALSE]]

handleTogglePlay ==
  /\ alertShown = NoAlert
  /\ UNCHANGED dashVars
  /\ HasMedia
  /\ media' = TogglePlay(pv, media).media
  /\ pv' = TogglePlay(pv, media).pv
  /\ UNCHANGED <<appVars, alertShown, jobs>>

SpeedChange(p, speed) == [p EXCEPT !.playbackRate = speed]

handleSpeedChange(speed) ==
  /\ alertShown = NoAlert
  /\ UNCHANGED dashVars
  /\ HasMedia
  /\ pv' = SpeedChange(pv, speed)
  /\ media' = [media EXCEPT !.playbackRate = speed]
  /\ UNCHANGED <<appVars, alertShown, jobs>>

\* A time sink that adds the reported time to what it had.
TimeUpdated_accumulating(p, m) ==
  [p EXCEPT !.currentTime = p.currentTime + m.currentTime, !.duration = m.duration]

\* handleTimeUpdate: e.currentTarget.currentTime and (duration || 0)
TimeUpdated(p, m) ==
  [p EXCEPT !.currentTime = m.currentTime, !.duration = m.duration]

\* The values the range input (min 0, max duration || 100) can deliver.
SeekValues ==
  LET max == IF pv.duration # 0 THEN pv.duration ELSE RangeDefaultMax
  IN  {t \in (0..MaxDuration) \cup {RangeDefaultMax} : t <= max}

Seek(p, time) == [p EXCEPT !.currentTime = time]

handleSeek(time) ==
  /\ alertShown = NoAlert
  /\ UNCHANGED dashVars
  /\ HasMedia
  /\ pv' = Seek(pv, time)
  /\ media' = ElementSeek(media, time)
  /\ UNCHANGED <<appVars, alertShown, jobs>>

\* A mute handler that forgets the element.
ToggleMute_stateOnly(p, m) ==
  [media |-> m, pv |-> [p EXCEPT !.isMuted = ~p.isMuted]]

\* The body of the mute button's onClick on the state p and the element m.
ToggleMute(p, m) ==
  LET nextMute == ~p.isMuted
  IN  [media |-> [m EXCEPT !.muted = nextMute],
       pv |-> [p EXCEPT !.isMuted = nextMute]]

\* Text is a tuple of characters.  String(n) of a whole number is its
\* decimal digits without leading zeros.
Digits == <<"0", "1", "2", "3", "4", "5", "6", "7", "8", "9">>

RECURSIVE Decimal(_)
Decimal(n) ==
  IF n < 10 THEN <<Digits[n + 1]>>
  ELSE Append(Decimal(n \div 10), Digits[(n % 10) + 1])

\* A formatter that does not pad the seconds.
formatTime_unpadded(time) ==
  Decimal(time \div 60) \o <<":">> \o Decimal(time % 60)

\* formatTime of a whole number of seconds
formatTime(time) ==
  LET minutes == time \div 60
      seconds == time % 60
  IN  Decimal(minutes) \o <<":">>
        \o (IF seconds < 10 THEN <<"0">> ELSE <<>>) \o Decimal(seconds)

\* The two time labels above the seek bar.
TimeLabels(p) ==
  [current |-> formatTime(p.currentTime), total |-> formatTime(p.duration)]

\* onClick of the mute button
toggleMute ==
  /\ alertShown = NoAlert
  /\ UNCHANGED dashVars
  /\ HasMedia
  /\ media' = ToggleMute(pv, media).media
  /\ pv' = ToggleMute(pv, media).pv
  /\ UNCHANGED <<appVars, alertShown, jobs>>

\* ------------------------------------------------ media element events
\* loadedmetadata: the duration becomes known; onLoadedMetadata={handleTimeUpdate}
LoadedMetadata(d) ==
  /\ alertShown = NoAlert
  /\ UNCHANGED dashVars
  /\ HasMedia /\ ~media.ready /\ ~media.error
  /\ LET m == [media EXCEPT !.ready = TRUE, !.duration = d,
                            !.currentTime = Min(media.currentTime, d)]
     IN  /\ media' = m
         /\ pv' = TimeUpdated(pv, m)
  /\ UNCHANGED <<appVars, alertShown, jobs>>

\* The source cannot be loaded; the component registers no error handler.
LoadError ==
  /\ alertShown = NoAlert
  /\ UNCHANGED dashVars
  /\ HasMedia /\ ~media.ready /\ ~media.error
  /\ media' = [media EXCEPT !.error = TRUE]
  /\ UNCHANGED <<appVars, alertShown, pv, jobs>>

\* Playback advances inside the element; no event is delivered yet.
Advance ==
  /\ alertShown = NoAlert
  /\ UNCHANGED dashVars
  /\ HasMedia /\ media.ready /\ ~media.paused
  /\ media.currentTime < media.duration
  /\ media' = [media EXCEPT !.currentTime = media.currentTime + 1]
  /\ UNCHANGED <<appVars, alertShown, pv, jobs>>

\* timeupdate: onTimeUpdate={handleTimeUpdate}
TimeUpdate ==
  /\ alertShown = NoAlert
  /\ UNCHANGED dashVars
  /\ HasMedia
  /\ pv' = TimeUpdated(pv, media)
  /\ UNCHANGED <<appVars, alertShown, media, jobs>>

\* An ended handler that rewinds the displayed time.
OnEnded_rewinding(p) == [p EXCEPT !.isPlaying = FALSE, !.currentTime = 0]

\* onEnded={() => setIsPlaying(false)}
OnEnded(p) == [p EXCEPT !.isPlaying = FALSE]

\* End of the resource: the element pauses itself and fires ended (the
\* timeupdate the element fires at the end is a TimeUpdate of its own).
Ended ==
  /\ alertShown = NoAlert
  /\ UNCHANGED dashVars
  /\ HasMedia /\ media.ready /\ ~media.paused
  /\ media.currentTime = media.duration
  /\ media' = [media EXCEPT !.paused = TRUE]
  /\ pv' = OnEnded(pv)
  /\ UNCHANGED <<appVars, alertShown, jobs>>

\* ------------------------------------------------------ transfer engine
RECURSIVE GCD(_, _)
GCD(a, b) == IF b = 0 THEN a ELSE GCD(b, a % b)

\* (event.loaded / event.total) * 100 as an exact fraction in lowest terms
Percent(loaded, total) ==
  LET g == GCD(loaded * 100, total)
  IN  <<(loaded * 100) \div g, total \div g>>

PctLeq(p, q) == p[1] * q[2] <= q[1] * p[2]

Statuses == {200, 204, 404, 500}
Bodies == {"json", "garbage"}
Envelope == [code |-> 200, data |-> "xyz"]

\* new XMLHttpRequest(); open; setRequestHeader x2; handlers; send
\* source is the sourceUrl of the render whose handler started the transfer;
\* events are the loaded counts of the progress events the transport has
\* dispatched to a direct caller's request, pcts the percentages that
\* caller's onProgress has received;
\* event, status, body are what the finished XHR reports.
NewJob(dir, caller, id, filename, computable, source) ==
  [dir |-> dir, caller |-> caller, id |-> id, filename |-> filename,
   source |-> source, attached |-> TRUE, headers |-> TunnelHeaders,
   phase |-> IF dir = "upload" THEN "sending" ELSE "receiving",
   computable |-> computable, loaded |-> 0, events |-> <<>>, pcts |-> <<>>,
   event |-> "none", status |-> 0, body |-> "",
   settled |-> "pending", settleCalls |-> 0, value |-> <<>>,
   sends |-> 1, saves |-> 0, savedAs |-> <<>>, urlLive |-> FALSE]

InFlight(job) == job.phase # "done"

\* A progress handler that ignores lengthComputable and estimates.
onprogress_estimating(job, loaded) == Percent(loaded, MaxTotal)

\* A progress handler that reports what is still to come instead.
onprogress_remaining(job, loaded) ==
  IF job.computable THEN Percent(MaxTotal - loaded, MaxTotal) ELSE NoPct

\* What xhr.upload.onprogress / xhr.onprogress pass to onProgress for an
\* event with these byte counts; NoPct when the callback is not invoked.
onprogress(job, loaded) ==
  IF job.computable THEN Percent(loaded, MaxTotal) ELSE NoPct

\* The effect of the progress handler on the transfer: a caller of the
\* engine observes the invocations of its callback.
Notified(job, loaded) ==
  LET pct == onprogress(job, loaded)
      j == [job EXCEPT !.loaded = loaded,
                       !.events = IF job.caller = "api" THEN Append(@, loaded) ELSE @]
  IN  IF pct # NoPct /\ job.caller = "api"
      THEN [j EXCEPT !.pcts = Append(@, pct)]
      ELSE j

resolve(job, v) ==
  [job EXCEPT !.settleCalls = @ + 1,
              !.settled = IF @ = "pending" THEN "resolved" ELSE @,
              !.value = IF job.settled = "pending" THEN v ELSE @]

reject(job, e) ==
  [job EXCEPT !.settleCalls = @ + 1,
              !.settled = IF @ = "pending" THEN "rejected" ELSE @,
              !.value = IF job.settled = "pending" THEN e ELSE @]

\* A download that forgets to release its object URL.
revokeObjectURL_missing(job) == job

\* window.URL.revokeObjectURL(downloadUrl)
revokeObjectURL(job) == [job EXCEPT !.urlLive = FALSE]

\* createObjectURL, <a download=filename>.click(), remove
SaveBlob(job) ==
  [job EXCEPT !.urlLive = TRUE, !.saves = @ + 1, !.savedAs = job.filename]

\* new Error(message) with the numbers interpolated into the message
Error(message, args) == [message |-> message, args |-> args]

\* uploadFileWithProgress: xhr.onload
UploadOnload(job, status, body) ==
  IF status >= 200 /\ status < 300
  THEN IF body = "json" THEN resolve(job, Envelope)
       ELSE reject(job, Error("Invalid JSON response", <<>>))
  ELSE reject(job, Error("Upload failed with status: ", <<status>>))

\* downloadWithProgress: xhr.onload
DownloadOnload(job, status) ==
  IF status = 200
  THEN resolve(revokeObjectURL(SaveBlob(job)), <<>>)
  ELSE reject(job, Error("Download failed", <<>>))

\* xhr.onerror of either operation
OnError(job) ==
  IF job.dir = "upload" THEN reject(job, Error("Network Error during upload", <<>>))
  ELSE reject(job, Error("Network error during download", <<>>))

Remove(js, k) == [i \in 1..(Len(js) - 1) |-> IF i < k THEN js[i] ELSE js[i + 1]]

\* The continuation of handleDownload after the awaited promise settles:
\* catch { alert } finally { setIsDownloading(false); setDownloadProgress(0) }
\* React drops the state updates of an instance that has unmounted.
Settled(k, job) ==
  IF job.caller = "preview"
  THEN /\ jobs' = Remove(jobs, k)
       /\ alertShown' = IF job.settled = "rejected" THEN "Download failed." ELSE alertShown
       /\ pv' = IF job.attached
                THEN [pv EXCEPT !.isDownloading = FALSE, !.downloadProgress = Zero]
                ELSE pv
  ELSE /\ jobs' = [jobs EXCEPT ![k] = job]
       /\ UNCHANGED <<alertShown, pv>>

\* A progress event of job k with these byte counts is handled; the
\* preview's callback is (percent) => setDownloadProgress(percent).
Progressed(k, loaded) ==
  LET pct == onprogress(jobs[k], loaded)
  IN  IF pct # NoPct /\ jobs[k].caller = "preview" /\ jobs[k].attached
      THEN [pv EXCEPT !.downloadProgress = pct]
      ELSE pv

\* ApiService.uploadFileWithProgress(file, text, onProgress) called directly
CallUpload ==
  /\ alertShown = NoAlert
  /\ UNCHANGED dashVars
  /\ Len(jobs) < MaxCalls
  /\ jobs' = Append(jobs, NewJob("upload", "api", "file", <<>>, TRUE, <<>>))
  /\ UNCHANGED <<appVars, alertShown, pv, media>>

\* ApiService.downloadWithProgress(id, filename, onProgress) called directly
CallDownload(computable) ==
  /\ alertShown = NoAlert
  /\ UNCHANGED dashVars
  /\ Len(jobs) < MaxCalls
  /\ jobs' = Append(jobs, NewJob("download", "api", "abc123", <<"report", "pdf">>, computable, <<>>))
  /\ UNCHANGED <<appVars, alertShown, pv, media>>

\* item.text || `download.${item.filetype?.split('/')[1] || 'file'}`
DownloadFilename(i) ==
  IF ItemText[i] # "" THEN <<ItemText[i]>>
  ELSE <<"download", IF ItemType[i] # <<>> THEN ItemType[i][2] ELSE "file">>

handleDownload(computable, cap) ==
  /\ alertShown = NoAlert
  /\ UNCHANGED dashVars
  /\ selectedItem # NoItem
  /\ ~pv.isDownloading
  /\ Len(jobs) < cap
  /\ pv' = [pv EXCEPT !.isDownloading = TRUE, !.downloadProgress = Zero]
  /\ jobs' = Append(jobs, NewJob("download", "preview", selectedItem,
                                 DownloadFilename(selectedItem), computable,
                                 sourceUrl(selectedItem, playingExternalUrl)))
  /\ UNCHANGED <<appVars, alertShown, media>>

\* A failure path that also empties the description input.
handleUpload_clearing ==
  /\ alertShown = NoAlert
  /\ ~isUploading
  /\ isUploading' = FALSE
  /\ uploadText' = ""
  /\ alertShown' = "Upload failed. Please check the server connection."
  /\ UNCHANGED <<items, loading, error, listCalls>>
  /\ UNCHANGED <<selectedItem, playingExternalUrl, externalLink, pv, media, jobs>>

\* handleUpload: ApiService has no uploadFile, so the call throws inside the
\* try block; catch alerts, finally clears the flag again.
handleUpload ==
  /\ alertShown = NoAlert
  /\ UNCHANGED dashVars
  /\ ~isUploading
  /\ isUploading' = FALSE
  /\ alertShown' = "Upload failed. Please check the server connection."
  /\ UNCHANGED <<selectedItem, playingExternalUrl, externalLink, pv, media, jobs>>

\* onChange of the description input
SetUploadText(t) ==
  /\ alertShown = NoAlert
  /\ uploadText' = t
  /\ UNCHANGED <<items, loading, error, listCalls>>
  /\ UNCHANGED <<selectedItem, playingExternalUrl, externalLink, isUploading,
                 alertShown, pv, media, jobs>>

\* ------------------------------------------------------------ the listing
\* What the server may answer to GET /list.  A response is the failure of
\* the request itself, or a status with a body; a body does not parse as
\* JSON, or is the JSON value {code, data} whose data is an array of items
\* or something else.
ListData == {<<>>, <<"doc">>, <<"vid", "img">>}
Garbage == [parses |-> FALSE, code |-> 0, isArray |-> FALSE, data |-> <<>>]
JsonBodies ==
  [parses : {TRUE}, code : {200, 500}, isArray : {TRUE}, data : ListData]
    \cup [parses : {TRUE}, code : {200, 500}, isArray : {FALSE}, data : {<<>>}]
NoResponse == [kind |-> "none", status |-> 0, body |-> Garbage]
ListResponses ==
  {[kind |-> "network", status |-> 0, body |-> Garbage]}
    \cup [kind : {"http"}, status : {200, 500}, body : {Garbage} \cup JsonBodies]

\* fetch(`${baseUrl}/list`, {method: 'GET', headers}) in flight; finished is
\* the position of the call among the completions, 0 while it is pending.
NewListCall ==
  [phase |-> "pending", headers |-> TunnelHeaders, response |-> NoResponse, finished |-> 0]

RECURSIVE Reverse(_)
Reverse(q) == IF q = <<>> THEN <<>> ELSE Append(Reverse(Tail(q)), Head(q))

\* ApiService.getList: the array it resolves with, or a throw.
getList(resp) ==
  IF resp.kind = "network" THEN [threw |-> TRUE, value |-> <<>>]
  ELSE IF resp.status < 200 \/ resp.status > 299 THEN [threw |-> TRUE, value |-> <<>>]
  ELSE IF ~resp.body.parses THEN [threw |-> TRUE, value |-> <<>>]
  ELSE IF resp.body.code = 200 /\ resp.body.isArray
       THEN [threw |-> FALSE, value |-> resp.body.data]
       ELSE [threw |-> FALSE, value |-> <<>>]

\* fetchItems up to its await: the refresh buttons, handleSaveSettings.
fetchItems ==
  /\ alertShown = NoAlert
  /\ Len(listCalls) < MaxFetches
  /\ loading' = TRUE
  /\ error' = NoError
  /\ listCalls' = Append(listCalls, NewListCall)
  /\ UNCHANGED <<uploadText, items>>
  /\ UNCHANGED <<selectedItem, playingExternalUrl, externalLink, isUploading,
                 alertShown, pv, media, jobs>>

\* fetchItems after its await, when call k is answered with resp.
ListSettled(k, resp) ==
  /\ alertShown = NoAlert
  /\ k \in 1..Len(listCalls)
  /\ listCalls[k].phase = "pending"
  /\ LET got == getList(resp)
         done == Cardinality({n \in 1..Len(listCalls) : listCalls[n].phase = "done"})
     IN  /\ items' = IF got.threw THEN items ELSE Reverse(got.value)
         /\ error' = IF got.threw THEN "Unable to connect to server." ELSE error
         /\ listCalls' = [listCalls EXCEPT ![k].phase = "done", ![k].response = resp,
                                            ![k].finished = done + 1]
  /\ loading' = FALSE
  /\ UNCHANGED uploadText
  /\ UNCHANGED <<selectedItem, playingExternalUrl, externalLink, isUploading,
                 alertShown, pv, media, jobs>>

\* ------------------------------------------------------- transport events
\* A progress event of the request body (upload) or response body (download)
Progress(k, loaded) ==
  /\ alertShown = NoAlert
  /\ UNCHANGED dashVars
  /\ k \in 1..Len(jobs)
  /\ jobs[k].phase = IF jobs[k].dir = "upload" THEN "sending" ELSE "receiving"
  /\ loaded > jobs[k].loaded
  /\ jobs' = [jobs EXCEPT ![k] = Notified(jobs[k], loaded)]
  /\ pv' = Progressed(k, loaded)
  /\ UNCHANGED <<appVars, alertShown, media>>

\* The request body is sent: the last upload progress event has loaded = total
UploadSent(k) ==
  /\ alertShown = NoAlert
  /\ UNCHANGED dashVars
  /\ k \in 1..Len(jobs)
  /\ jobs[k].dir = "upload" /\ jobs[k].phase = "sending"
  /\ jobs' = [jobs EXCEPT ![k] = [Notified(jobs[k], MaxTotal) EXCEPT !.phase = "receiving"]]
  /\ pv' = Progressed(k, MaxTotal)
  /\ UNCHANGED <<appVars, alertShown, media>>

\* The response is complete: for a download the last progress event has
\* loaded = total; then load fires.
Load(k, status, body) ==
  /\ alertShown = NoAlert
  /\ UNCHANGED dashVars
  /\ k \in 1..Len(jobs)
  /\ jobs[k].phase = "receiving"
  /\ LET job == IF jobs[k].dir = "upload"
                THEN UploadOnload(jobs[k], status, body)
                ELSE DownloadOnload(Notified(jobs[k], MaxTotal), status)
     IN  Settled(k, [job EXCEPT !.phase = "done", !.event = "load",
                                !.status = status, !.body = body])
  /\ UNCHANGED <<appVars, media>>

\* Network-level failure: error fires.
NetError(k) ==
  /\ alertShown = NoAlert
  /\ UNCHANGED dashVars
  /\ k \in 1..Len(jobs)
  /\ InFlight(jobs[k])
  /\ Settled(k, [OnError(jobs[k]) EXCEPT !.phase = "done", !.event = "error"])
  /\ UNCHANGED <<appVars, media>>

\* The request is aborted: abort fires; neither operation sets xhr.onabort,
\* so the promise stays pending and no continuation runs.  The finished XHR
\* of the preview is garbage; the engine's direct caller keeps its promise.
Abort(k) ==
  /\ alertShown = NoAlert
  /\ UNCHANGED dashVars
  /\ k \in 1..Len(jobs)
  /\ InFlight(jobs[k])
  /\ jobs' = IF jobs[k].caller = "preview" THEN Remove(jobs, k)
             ELSE [jobs EXCEPT ![k].phase = "done", ![k].event = "abort"]
  /\ UNCHANGED <<appVars, alertShown, pv, media>>

\* The user dismisses the alert dialog.
DismissAlert ==
  /\ alertShown # NoAlert
  /\ UNCHANGED dashVars
  /\ alertShown' = NoAlert
  /\ UNCHANGED <<selectedItem, playingExternalUrl, externalLink, isUploading,
                 pv, media, jobs>>

Init ==
  /\ selectedItem = NoItem
  /\ playingExternalUrl = NoUrl
  /\ externalLink = ""
  /\ isUploading = FALSE
  /\ uploadText = ""
  /\ items = <<>>
  /\ loading = TRUE
  /\ error = NoError
  /\ listCalls = <<NewListCall>>
  /\ alertShown = NoAlert
  /\ pv = PreviewDefaults
  /\ media = NoMedia
  /\ jobs = <<>>

\* The orchestrator: what the user can do to the preview's inputs.
NextApp ==
  \/ \E i \in Items : SelectItem(i)
  \/ \E u \in ExternalUrls \cup {""} : SetExternalLink(u)
  \/ handlePlayExternal
  \/ Close

\* The playback controls and the events of the bound media element.
NextPlayback ==
  \/ handleTogglePlay
  \/ \E speed \in RateButtons : handleSpeedChange(speed)
  \/ \E time \in SeekValues : handleSeek(time)
  \/ toggleMute
  \/ \E d \in 1..MaxDuration : LoadedMetadata(d)
  \/ LoadError
  \/ Advance
  \/ TimeUpdate
  \/ Ended

\* The events of the XHRs in flight.
NextTransport ==
  \/ \E k \in 1..MaxJobs, loaded \in 1..MaxTotal : Progress(k, loaded)
  \/ \E k \in 1..MaxJobs, status \in Statuses, body \in Bodies : Load(k, status, body)
  \/ \E k \in 1..MaxJobs : NetError(k)
  \/ \E k \in 1..MaxJobs : Abort(k)

\* The preview with its playback controls and its downloads, with at most
\* MaxSessionJobs XHR objects alive.
Next ==
  \/ NextApp
  \/ NextPlayback
  \/ \E computable \in BOOLEAN : handleDownload(computable, MaxSessionJobs)
  \/ NextTransport
  \/ DismissAlert

Spec == Init /\ [][Next]_vars

\* Preview sessions and their transfers, the media element left alone.
NextDownloads ==
  \/ NextApp
  \/ \E computable \in BOOLEAN : handleDownload(computable, MaxJobs)
  \/ handleUpload
  \/ NextTransport
  \/ DismissAlert

SpecDownloads == Init /\ [][NextDownloads]_vars

\* Preview sessions and playback, no transfer started.
NextSession ==
  \/ NextApp
  \/ NextPlayback

SpecPlayback == Init /\ [][NextSession]_vars

\* The controller's operations called with any argument, as a caller of
\* the handlers (not the rendered controls) can.
RateInputs == RateButtons \cup {75}
TimeInputs == (-1)..(MaxDuration + 1)

NextOperations ==
  \/ NextApp
  \/ NextPlayback
  \/ \E speed \in RateInputs : handleSpeedChange(speed)
  \/ \E time \in TimeInputs : handleSeek(time)

SpecOperations == Init /\ [][NextOperations]_vars

\* The requests to the storage service that the state holds: the getList
\* calls, the XHR transfers, and the GETs the browser issues by itself for
\* the src of the preview's <img>, <video> or <audio> and of the grid
\* thumbnails of the listed images, which carry no header the code sets.
Request(endpoint, via, headers) ==
  [endpoint |-> endpoint, via |-> via, headers |-> headers]

PreviewRequests ==
  IF /\ Mounted(selectedItem, playingExternalUrl)
     /\ playingExternalUrl = NoUrl
     /\ category(selectedItem, playingExternalUrl) \in {"IMAGE", "VIDEO", "AUDIO"}
  THEN {Request("download", "src", {})}
  ELSE {}

ThumbnailRequests ==
  {Request("download", "src", {}) :
     n \in {n \in 1..Len(items) : getCategoryFromMime(ItemType[items[n]]) = "IMAGE"}}

Requests ==
  {Request("list", "fetch", listCalls[n].headers) : n \in 1..Len(listCalls)}
    \cup {Request(jobs[k].dir, "xhr", jobs[k].headers) : k \in 1..Len(jobs)}
    \cup PreviewRequests
    \cup ThumbnailRequests

\* Sources of any length up to MaxSeconds and the time labels shown for
\* them.
NextLabels ==
  \/ \E i \in {"vid", "aud"} : SelectItem(i)
  \/ Close
  \/ \E d \in 1..MaxSeconds : LoadedMetadata(d)
  \/ \E time \in SeekValues : handleSeek(time)
  \/ TimeUpdate

SpecLabels == Init /\ [][NextLabels]_vars

\* The dashboard: the listing and the upload form.
NextDashboard ==
  \/ fetchItems
  \/ \E k \in 1..MaxFetches, resp \in ListResponses : ListSettled(k, resp)
  \/ \E t \in UploadTexts : SetUploadText(t)
  \/ handleUpload
  \/ DismissAlert

SpecDashboard == Init /\ [][NextDashboard]_vars

\* The transfer engine driven directly through its two operations, at most
\* MaxCalls times.
NextTransfer ==
  \/ CallUpload
  \/ \E computable \in BOOLEAN : CallDownload(computable)
  \/ \E k \in 1..MaxJobs : UploadSent(k)
  \/ NextTransport

SpecTransfer == Init /\ [][NextTransfer]_vars

\* ------------------------------------------------------------------ claims
ApiJobs == {k \in 1..Len(jobs) : jobs[k].caller = "api"}
Last(q) == q[Len(q)]

\* C1 (amended): the percentages one transfer delivers to its callback are
\* non-decreasing and within [0,100]; a transfer whose total length is
\* computable has delivered exactly 100 last when it resolves, and a
\* transfer whose total length is not computable delivers no percentage.
C1_ProgressMonotone ==
  \A k \in ApiJobs :
    LET q == jobs[k].pcts
    IN  /\ \A a, b \in 1..Len(q) : a <= b => PctLeq(q[a], q[b])
        /\ \A a \in 1..Len(q) : PctLeq(Zero, q[a]) /\ PctLeq(q[a], Hundred)
        /\ jobs[k].settled = "resolved" /\ jobs[k].computable
             => q # <<>> /\ Last(q) = Hundred
        /\ ~jobs[k].computable => q = <<>>

\* A resolved transfer that delivered a smaller percentage before 100.
C1_Witness ==
  \E k \in ApiJobs :
    /\ jobs[k].settled = "resolved"
    /\ Len(jobs[k].pcts) >= 2
    /\ jobs[k].pcts[1] # Hundred
    /\ Last(jobs[k].pcts) = Hundred

\* C1 as stated: every transfer that resolves has delivered 100 last, also
\* when the total length is not computable.
C1_Original ==
  \A k \in ApiJobs :
    LET q == jobs[k].pcts
    IN  /\ \A a, b \in 1..Len(q) : a <= b => PctLeq(q[a], q[b])
        /\ \A a \in 1..Len(q) : PctLeq(Zero, q[a]) /\ PctLeq(q[a], Hundred)
        /\ jobs[k].settled = "resolved" => q # <<>> /\ Last(q) = Hundred

\* C2: a transfer whose transport has finished (load, error or abort) has
\* settled its promise, by exactly one call of resolve or reject.
C2_SettlesExactlyOnce ==
  \A k \in ApiJobs :
    jobs[k].phase = "done"
      => jobs[k].settled # "pending" /\ jobs[k].settleCalls = 1

\* C8: a finished upload resolved with the parsed envelope exactly when the
\* status is 2xx and the body is JSON; otherwise it rejected: unparseable
\* body, non-2xx status (the error carries it), network failure or abort.
C8_UploadOutcome ==
  \A k \in ApiJobs :
    LET j == jobs[k]
        ok == j.event = "load" /\ j.status >= 200 /\ j.status < 300
    IN  j.dir = "upload" /\ j.phase = "done" =>
          /\ (j.settled = "resolved") = (ok /\ j.body = "json")
          /\ j.settled = "resolved" => j.value = Envelope
          /\ ok /\ j.body # "json"
               => j.settled = "rejected" /\ j.value.message = "Invalid JSON response"
          /\ j.event = "load" /\ ~ok
               => j.settled = "rejected" /\ j.value.args = <<j.status>>
          /\ j.event \in {"error", "abort"} => j.settled = "rejected"

\* C9: a download that ended with a status other than 200 or with a network
\* failure rejected, with an error that carries the status when there is
\* one, saved nothing, left no object URL and sent one request only.
C9_DownloadFailure ==
  \A k \in ApiJobs :
    LET j == jobs[k]
    IN  /\ j.dir = "download"
        /\ j.phase = "done"
        /\ \/ j.event = "error"
           \/ j.event = "load" /\ j.status # 200
        => /\ j.settled = "rejected"
           /\ j.event = "load" => j.value.args = <<j.status>>
           /\ j.saves = 0
           /\ ~j.urlLive
           /\ j.sends = 1

\* C10: a download answered with status 200 has triggered exactly one save,
\* under the filename it was given, and no settled download holds a live
\* object URL.
C10_SaveAndRelease ==
  \A k \in ApiJobs :
    LET j == jobs[k]
    IN  j.dir = "download" =>
          /\ j.settled # "pending" => ~j.urlLive
          /\ j.event = "load" /\ j.status = 200
               => j.settled = "resolved" /\ j.saves = 1 /\ j.savedAs = j.filename

\* A download that resolved after saving.
C10_Witness ==
  \E k \in ApiJobs :
    /\ jobs[k].dir = "download"
    /\ jobs[k].settled = "resolved"
    /\ jobs[k].saves = 1

\* C11: a transfer whose total length is not computable has invoked the
\* progress callback for none of its progress events; the invocations of a
\* transfer whose length is computable carry, in order, loaded/total*100 of
\* its progress events, so there are never more invocations than events.
C11_NoFabricatedProgress ==
  \A k \in ApiJobs :
    LET j == jobs[k]
    IN  /\ ~j.computable => j.pcts = <<>>
        /\ Len(j.pcts) <= Len(j.events)
        /\ j.computable =>
              /\ Len(j.pcts) = Len(j.events)
              /\ \A n \in 1..Len(j.pcts) : j.pcts[n] = Percent(j.events[n], MaxTotal)

\* A download without a computable length that resolved after two
\* progress events, none of which reached the callback.
C11_Witness ==
  \E k \in ApiJobs :
    /\ ~jobs[k].computable
    /\ Len(jobs[k].events) >= 2
    /\ jobs[k].pcts = <<>>
    /\ jobs[k].settled = "resolved"

\* The transport of the preview's download k ends in this step.
Terminates(k) ==
  /\ k \in 1..Len(jobs)
  /\ jobs[k].caller = "preview" /\ jobs[k].attached
  /\ \/ \E status \in Statuses, body \in Bodies : Load(k, status, body)
     \/ NetError(k)
     \/ Abort(k)

\* The display of the mounted preview shows no download.
DisplayReset(p) == p.downloadProgress = Zero /\ ~p.isDownloading

\* C12: every step in which a download of the mounted preview ends (load
\* with any status, network error, abort) leaves the displayed progress 0
\* and the downloading flag false, and they are so whenever no download of
\* the mounted preview is in flight.
C12_TerminalResets ==
  [][/\ (\E k \in 1..MaxJobs : Terminates(k)) => DisplayReset(pv')
     /\ (\A k \in 1..Len(jobs') : ~jobs'[k].attached) => DisplayReset(pv')]_vars

\* An event of transfer k is handled in this step.
TransportEvent(k) ==
  \/ \E loaded \in 1..MaxTotal : Progress(k, loaded)
  \/ \E status \in Statuses, body \in Bodies : Load(k, status, body)
  \/ NetError(k)
  \/ Abort(k)

\* C13: no progress tick and no terminal event of a download whose preview
\* has been closed changes preview state or puts a notice on screen.
C13_DiscardedAfterClose ==
  [][\A k \in 1..MaxJobs :
       k \in 1..Len(jobs) /\ ~jobs[k].attached /\ TransportEvent(k)
         => pv' = pv /\ alertShown' = alertShown]_vars

\* C14: close leaves no selected item, no external URL and no bound media
\* element, and every transfer that was in flight is still in flight with
\* what it had received; the preview opened next starts from the default
\* PlaybackState with a fresh element.
C14_CloseEndsSession ==
  [][/\ Close =>
          /\ selectedItem' = NoItem /\ playingExternalUrl' = NoUrl
          /\ ~Mounted(selectedItem', playingExternalUrl')
          /\ media' = NoMedia
          /\ Len(jobs') = Len(jobs)
          /\ \A k \in 1..Len(jobs) :
               /\ InFlight(jobs'[k]) = InFlight(jobs[k])
               /\ jobs'[k] = [jobs[k] EXCEPT !.attached = FALSE]
     /\ ~Mounted(selectedItem, playingExternalUrl)
          /\ Mounted(selectedItem', playingExternalUrl')
          => /\ pv' = PreviewDefaults
             /\ media' = FreshMedia(ElementKind(selectedItem', playingExternalUrl'))]_vars

\* A preview opened after a close shows the defaults while the download
\* of the closed preview, which had reported progress, is still in flight.
C14_Witness ==
  /\ Mounted(selectedItem, playingExternalUrl)
  /\ pv = PreviewDefaults
  /\ \E k \in 1..Len(jobs) :
       InFlight(jobs[k]) /\ ~jobs[k].attached /\ jobs[k].loaded > 0

\* C15: at most one of selectedItem and playingExternalUrl is set.
C15_OneActiveSource ==
  ~(selectedItem # NoItem /\ playingExternalUrl # NoUrl)

\* C16: togglePlay on a paused element leaves it playing with isPlaying
\* true, on a playing element leaves it paused with isPlaying false, and a
\* second togglePlay right after the first restores the element's paused
\* flag and isPlaying.
C16_TogglePlay ==
  HasMedia =>
    LET once == TogglePlay(pv, media)
        twice == TogglePlay(once.pv, once.media)
    IN  /\ media.paused => ~once.media.paused /\ once.pv.isPlaying
        /\ ~media.paused => once.media.paused /\ ~once.pv.isPlaying
        /\ twice.media.paused = media.paused
        /\ twice.pv.isPlaying = pv.isPlaying

\* C17: toggleMute flips isMuted and gives the element the new value,
\* changes no other field of the state or of the element, and a second
\* toggleMute brings isMuted back with the same volume.
C17_ToggleMute ==
  [][toggleMute =>
       /\ pv'.isMuted = ~pv.isMuted
       /\ media'.muted = pv'.isMuted
       /\ pv' = [pv EXCEPT !.isMuted = pv'.isMuted]
       /\ media' = [media EXCEPT !.muted = media'.muted]
       /\ LET twice == ToggleMute(pv', media')
          IN  /\ twice.pv.isMuted = pv.isMuted
              /\ twice.pv.volume = pv.volume
              /\ twice.media.muted = twice.pv.isMuted]_vars

\* Muted while playing at another rate, part of the way through.
C17_Witness ==
  /\ HasMedia
  /\ pv.isMuted /\ media.muted
  /\ pv.isPlaying /\ pv.playbackRate # DefaultRate /\ pv.currentTime > 0
  /\ pv.volume = DefaultVolume

\* C18: a time update leaves currentTime and duration at the values the
\* element reports with it, changes no other field, does not write to the
\* element, and delivering the same update again changes nothing.
C18_TimeUpdate ==
  [][TimeUpdate =>
       /\ pv'.currentTime = media.currentTime
       /\ pv'.duration = media.duration
       /\ pv' = [pv EXCEPT !.currentTime = pv'.currentTime, !.duration = pv'.duration]
       /\ media' = media
       /\ TimeUpdated(pv', media') = pv']_vars

\* An update was delivered part of the way through a muted playback at
\* another rate.
C18_Witness ==
  /\ HasMedia /\ media.ready
  /\ pv.currentTime = media.currentTime /\ pv.currentTime > 0
  /\ pv.duration = media.duration
  /\ pv.isPlaying /\ pv.isMuted /\ pv.playbackRate # DefaultRate

\* C3: at most one transfer is in flight.
C3_AtMostOneInFlight ==
  Cardinality({k \in 1..Len(jobs) : InFlight(jobs[k])}) <= 1

\* A step that gives the preview another source to show.
SourceChanges ==
  /\ Mounted(selectedItem', playingExternalUrl')
  /\ sourceUrl(selectedItem', playingExternalUrl')
       # sourceUrl(selectedItem, playingExternalUrl)

\* C4: every step that changes the active source leaves currentTime 0,
\* playbackRate 1.0, the displayed download progress 0 and not downloading,
\* and leaves every transfer in flight as it was.
C4_SourceChangeResets ==
  [][SourceChanges =>
       /\ pv'.currentTime = 0
       /\ pv'.playbackRate = DefaultRate
       /\ pv'.downloadProgress = Zero
       /\ ~pv'.isDownloading
       /\ jobs' = jobs]_vars

\* The preview shows another source than the one a download still in
\* flight was started from, and the progress that download had reported
\* is gone from the display.
C4_Witness ==
  /\ Mounted(selectedItem, playingExternalUrl)
  /\ pv.currentTime = 0 /\ pv.playbackRate = DefaultRate
  /\ pv.downloadProgress = Zero /\ ~pv.isDownloading
  /\ \E k \in 1..Len(jobs) :
       /\ InFlight(jobs[k])
       /\ jobs[k].attached
       /\ jobs[k].computable /\ jobs[k].loaded > 0
       /\ jobs[k].source # sourceUrl(selectedItem, playingExternalUrl)

\* C5: every step that changes the active source leaves every field of
\* PlaybackState at its default.
C5_SourceChangeDefaults ==
  [][SourceChanges =>
       /\ pv'.isPlaying = FALSE
       /\ pv'.currentTime = 0
       /\ pv'.duration = 0
       /\ pv'.playbackRate = DefaultRate
       /\ pv'.volume = DefaultVolume
       /\ pv'.isMuted = FALSE]_vars

C7_SeekClamped ==
  [][(\E time \in SeekValues : handleSeek(time)) =>
       /\ 0 <= pv'.currentTime
       /\ pv'.currentTime <= pv'.duration
       /\ pv'.currentTime = media'.currentTime]_vars

\* The session is in its Ended state: the element stands paused at the end
\* of the resource and the controller shows it as not playing.
EndedState(p, m) ==
  /\ m.kind # "none" /\ m.ready
  /\ m.paused /\ m.currentTime = m.duration
  /\ ~p.isPlaying

\* C19: the ended event leaves isPlaying false and every other field as it
\* was; a step that takes the session out of the Ended state is a seek, a
\* togglePlay, a source change or a close.
C19_Ended ==
  [][/\ Ended => ~pv'.isPlaying /\ pv' = [pv EXCEPT !.isPlaying = FALSE]
     /\ EndedState(pv, media) /\ ~EndedState(pv', media')
          => \/ \E time \in SeekValues : handleSeek(time)
             \/ handleTogglePlay
             \/ SourceChanges
             \/ Close]_vars

\* Playback of a muted source at another rate has ended and the display
\* stands at the end.
C19_Witness ==
  /\ EndedState(pv, media)
  /\ pv.currentTime = pv.duration /\ pv.duration = media.duration
  /\ pv.isMuted /\ pv.playbackRate # DefaultRate

\* C20: while an external URL is set, the preview's category is VIDEO, its
\* source is that URL as given and the bound element is the video element,
\* whatever item is selected with it; without an external URL the category
\* is the classification of the selected item's content type and the source
\* is the item's download URL.
C20_ExternalIsVideo ==
  Mounted(selectedItem, playingExternalUrl) =>
    /\ playingExternalUrl # NoUrl =>
          /\ category(selectedItem, playingExternalUrl) = "VIDEO"
          /\ sourceUrl(selectedItem, playingExternalUrl) = <<"external", playingExternalUrl>>
          /\ media.kind = "video"
    /\ playingExternalUrl = NoUrl =>
          /\ category(selectedItem, playingExternalUrl) = getCategoryFromMime(ItemType[selectedItem])
          /\ sourceUrl(selectedItem, playingExternalUrl) = getDownloadUrl(selectedItem)
          /\ media.kind = ElementKind(selectedItem, NoUrl)

\* An external URL is played on the video element while an image item is
\* selected.
C20_Witness ==
  /\ playingExternalUrl # NoUrl
  /\ selectedItem = "img"
  /\ media.kind = "video" /\ media.ready

\* C21: in a mounted preview the video element is bound exactly when the
\* category is VIDEO and the audio element exactly when it is AUDIO, never
\* both; for DOCUMENT and IMAGE no element is bound, no playback control is
\* rendered and togglePlay, seek, setRate and toggleMute cannot act; DOCUMENT
\* renders its download button and nothing else.
C21_RenderingByCategory ==
  Mounted(selectedItem, playingExternalUrl) =>
    LET c == category(selectedItem, playingExternalUrl)
        r == Renders(selectedItem, playingExternalUrl)
    IN  /\ (media.kind = "video") = (c = "VIDEO")
        /\ (media.kind = "audio") = (c = "AUDIO")
        /\ HasMedia = (c \in {"VIDEO", "AUDIO"})
        /\ HasMedia = r.controls
        /\ ~(r.video /\ r.audio)
        /\ c \in {"DOCUMENT", "IMAGE"} =>
              /\ media = NoMedia
              /\ ~ENABLED handleTogglePlay
              /\ ~ENABLED toggleMute
              /\ ~ENABLED (\E time \in SeekValues : handleSeek(time))
              /\ ~ENABLED (\E speed \in RateButtons : handleSpeedChange(speed))
        /\ c = "DOCUMENT" =>
              /\ r.documentDownload
              /\ ~r.img /\ ~r.video /\ ~r.audio /\ ~r.controls /\ ~r.sidebarDownload

\* A document is shown after the stream input was filled: no element, no
\* controls, the download button only.
C21_Witness ==
  /\ selectedItem = "doc" /\ playingExternalUrl = NoUrl
  /\ externalLink # ""
  /\ media = NoMedia
  /\ Renders(selectedItem, playingExternalUrl).documentDownload

C23_HeadersOnEveryRequest ==
  \A r \in Requests : TunnelHeaders \subseteq r.headers

\* The request itself failed: no response, or a status outside 2xx.
RequestFailed(resp) ==
  resp.kind = "network" \/ resp.status < 200 \/ resp.status > 299

\* The body is {code: 200, data: array}.
ListShape(body) == body.parses /\ body.code = 200 /\ body.isArray

\* C24: when a list request is answered with a body of any other shape
\* than {code: 200, data: array} the item list is empty afterwards and no
\* error is shown; the error state is set only by a request that itself
\* failed; and loading is false after either.
C24_ListShapes ==
  [][\A k \in 1..MaxFetches, resp \in ListResponses :
       ListSettled(k, resp) =>
         /\ ~RequestFailed(resp) /\ ~ListShape(resp.body)
              => items' = <<>> /\ error' = NoError
         /\ error' # error => RequestFailed(resp)
         /\ ~loading']_vars

\* The whole number a text of decimal digits stands for, -1 when a
\* character is not a digit.
DigitValue(c) ==
  IF \E d \in 1..10 : Digits[d] = c
  THEN (CHOOSE d \in 1..10 : Digits[d] = c) - 1
  ELSE -1

RECURSIVE Value(_)
Value(text) ==
  IF text = <<>> THEN 0
  ELSE LET front == Value(SubSeq(text, 1, Len(text) - 1))
           last == DigitValue(text[Len(text)])
       IN  IF front < 0 \/ last < 0 THEN -1 ELSE front * 10 + last

\* text is t div 60 in decimal, a colon, and t mod 60 in two digits.
MinutesColonSeconds(text, t) ==
  LET c == Len(text) - 2
  IN  /\ c >= 2
      /\ text[c] = ":"
      /\ Value(SubSeq(text, 1, c - 1)) = t \div 60
      /\ c > 2 => text[1] # "0"
      /\ Value(SubSeq(text, c + 1, c + 2)) = t % 60

\* C25: each time label is the minutes in decimal, a colon and the seconds
\* in exactly two digits; 65 shows as 1:05, 5 as 0:05 and 0 as 0:00.
C25_FormatTime ==
  /\ MinutesColonSeconds(TimeLabels(pv).current, pv.currentTime)
  /\ MinutesColonSeconds(TimeLabels(pv).total, pv.duration)
  /\ pv.duration = 65 => TimeLabels(pv).total = <<"1", ":", "0", "5">>
  /\ pv.duration = 5 => TimeLabels(pv).total = <<"0", ":", "0", "5">>
  /\ pv.currentTime = 0 => TimeLabels(pv).current = <<"0", ":", "0", "0">>

\* 100 seconds into a source of 615 seconds: 1:40 of 10:15.
C25_Witness ==
  /\ pv.currentTime = 100 /\ pv.duration = 615
  /\ TimeLabels(pv).current = <<"1", ":", "4", "0">>
  /\ TimeLabels(pv).total = <<"1", "0", ":", "1", "5">>

\* C26: no progress tick and no terminal event of a download that was
\* started for another source than the one now shown changes the displayed
\* progress or the downloading flag.
C26_OldDownloadLeavesDisplay ==
  [][\A k \in 1..MaxJobs :
       /\ k \in 1..Len(jobs)
       /\ jobs[k].caller = "preview"
       /\ Mounted(selectedItem, playingExternalUrl)
       /\ jobs[k].source # sourceUrl(selectedItem, playingExternalUrl)
       /\ TransportEvent(k)
       => /\ pv'.downloadProgress = pv.downloadProgress
          /\ pv'.isDownloading = pv.isDownloading]_vars

\* C27: while a media element is bound, isPlaying is true exactly when the
\* element is not paused.
C27_PlayingMirrorsElement ==
  HasMedia => (pv.isPlaying = ~media.paused)

\* C28: while a media element is bound, isMuted equals the element's muted
\* flag.
C28_MutedMirrorsElement ==
  HasMedia => (pv.isMuted = media.muted)

\* A list call is still pending.
ListPending == \E n \in 1..Len(listCalls) : listCalls[n].phase = "pending"

\* C29: handleUpload starts with isUploading false, raises it and sends the
\* upload to the server; isUploading falls again only with the failure
\* notice, or with the description cleared and the refetch of the listing
\* finished.
C29_UploadSuccessSequence ==
  [][/\ handleUpload =>
          /\ ~isUploading
          /\ isUploading'
          /\ \E k \in 1..Len(jobs') : jobs'[k].dir = "upload" /\ InFlight(jobs'[k])
     /\ isUploading /\ ~isUploading' =>
          \/ alertShown' = "Upload failed. Please check the server connection."
          \/ uploadText' = "" /\ ~ListPending']_vars

\* C30: loading is true while a list call is pending; once none is, the
\* error state and the items are those of the call issued last.
C30_LatestListWins ==
  /\ ListPending => loading
  /\ ~ListPending =>
       LET got == getList(listCalls[Len(listCalls)].response)
       IN  /\ got.threw = (error # NoError)
           /\ ~got.threw => items = Reverse(got.value)
====
